---- MODULE Spec2Model ----
(***************************************************************************)
(* Order-intake Telegram bot (src/bot.py, src/config.py).                  *)
(*                                                                         *)
(* The model follows one user's conversation: the ConversationHandler      *)
(* registered by setup_handlers, the handlers of BotHandlers, the          *)
(* per-user dict context.user_data, and OrderService.send_notification.    *)
(*                                                                         *)
(* Texts are sequences of characters (one-character strings); the two      *)
(* Cyrillic words the bot matches are spelled with the character tokens    *)
(* cyr_de, cyr_a, cyr_en, cyr_ie, cyr_te and their capitals CYR_DE, CYR_EN.*)
(***************************************************************************)
EXTENDS Integers, Sequences, FiniteSets, Bags, TLC

(***************************************************************************)
(* Bounds of the model.                                                    *)
(***************************************************************************)
\* handler coroutines of one user that may be suspended at an await at once
MaxTasks == 2
\* longest contact string given to _validate_contact on its own
MaxContactLen == 6

(***************************************************************************)
(* Program constants.                                                      *)
(***************************************************************************)
\* send_notification(order_data, retries: int = 3)
DefaultRetries == 3
\* prices are carried in hundredths (the replies print them with :.2f)
Scale == 100
\* if price > 1000000
MaxPrice == 1000000
\* if len(clean_phone) >= 5
MinPhoneDigits == 5
\* float(os.getenv('EXCHANGE_RATE', 13.0))
exchange_rate == 13

(***************************************************************************)
(* Characters and strings.                                                 *)
(***************************************************************************)
LowerChars == <<"a","b","c","d","e","f","g","h","i","j","k","l","m","n","o","p",
                "q","r","s","t","u","v","w","x","y","z","cyr_de","cyr_en">>
UpperChars == <<"A","B","C","D","E","F","G","H","I","J","K","L","M","N","O","P",
                "Q","R","S","T","U","V","W","X","Y","Z","CYR_DE","CYR_EN">>
DigitChars == <<"0","1","2","3","4","5","6","7","8","9">>

Range(s) == {s[i] : i \in DOMAIN s}

AsciiLetters == {LowerChars[i] : i \in 1..26} \cup {UpperChars[i] : i \in 1..26}

\* str.isdigit, for one character
IsDigit(c) == c \in Range(DigitChars)

DigitVal(c) == (CHOOSE i \in DOMAIN DigitChars : DigitChars[i] = c) - 1

\* str.lower, for one character and for a string
LowerChar(c) ==
    IF \E i \in DOMAIN UpperChars : UpperChars[i] = c
    THEN LowerChars[CHOOSE i \in DOMAIN UpperChars : UpperChars[i] = c]
    ELSE c

Lower(s) == [i \in DOMAIN s |-> LowerChar(s[i])]

\* str.find of one character: the first index, 0 when absent
Find(s, c) ==
    IF \E i \in DOMAIN s : s[i] = c
    THEN CHOOSE i \in DOMAIN s : s[i] = c /\ \A j \in 1..(i - 1) : s[j] # c
    ELSE 0

Contains(s, c) == \E i \in DOMAIN s : s[i] = c

Tail_From(s, i) == SubSeq(s, i, Len(s))

\* str.split(sep) for a one-character separator
RECURSIVE Split(_, _)
Split(s, sep) ==
    IF Find(s, sep) = 0
    THEN <<s>>
    ELSE <<SubSeq(s, 1, Find(s, sep) - 1)>> \o Split(Tail_From(s, Find(s, sep) + 1), sep)

\* str.replace(old, new) for one-character arguments
Replace(s, old, new) == [i \in DOMAIN s |-> IF s[i] = old THEN new ELSE s[i]]

\* str.strip
RECURSIVE LStrip(_)
LStrip(s) == IF Len(s) > 0 /\ s[1] = " " THEN LStrip(Tail(s)) ELSE s
RECURSIVE RStrip(_)
RStrip(s) == IF Len(s) > 0 /\ s[Len(s)] = " " THEN RStrip(SubSeq(s, 1, Len(s) - 1)) ELSE s
Strip(s) == RStrip(LStrip(s))

\* "".join(c for c in contact if c.isdigit())
RECURSIVE DigitsOf(_)
DigitsOf(s) ==
    IF s = <<>> THEN <<>>
    ELSE (IF IsDigit(s[1]) THEN <<s[1]>> ELSE <<>>) \o DigitsOf(Tail(s))

\* Optional[...] = None, for a string field and for a number field
NoneStr == <<"None">>
NoneNum == [kind |-> "none", v |-> 0]

(***************************************************************************)
(* config.shipping_options                                                 *)
(***************************************************************************)
truck == <<"t","r","u","c","k">>
air == <<"a","i","r">>
express == <<"e","x","p","r","e","s","s">>
shipping_options == {truck, air, express}

(***************************************************************************)
(* urlparse, as far as handle_link reads it: the scheme and the netloc.    *)
(* (Bracketed IPv6 hosts, whose errors are ValueErrors that handle_link    *)
(* answers like any other invalid link, are not among the inputs.)         *)
(***************************************************************************)
SchemeChars == AsciiLetters \cup Range(DigitChars) \cup {"+", "-", "."}

HasScheme(url) ==
    LET i == Find(url, ":") IN
    /\ i > 1
    /\ url[1] \in AsciiLetters
    /\ \A j \in 1..(i - 1) : url[j] \in SchemeChars

urlparse_scheme(url) ==
    IF HasScheme(url) THEN Lower(SubSeq(url, 1, Find(url, ":") - 1)) ELSE <<>>

AfterScheme(url) ==
    IF HasScheme(url) THEN Tail_From(url, Find(url, ":") + 1) ELSE url

RECURSIVE UpToDelim(_)
UpToDelim(s) ==
    IF s = <<>> \/ s[1] \in {"/", "?", "#"} THEN <<>> ELSE <<s[1]>> \o UpToDelim(Tail(s))

urlparse_netloc(url) ==
    LET rest == AfterScheme(url) IN
    IF Len(rest) >= 2 /\ rest[1] = "/" /\ rest[2] = "/"
    THEN UpToDelim(Tail_From(rest, 3))
    ELSE <<>>

\* all([parsed.scheme in ('http', 'https'), parsed.netloc])
LinkValid(text) ==
    /\ urlparse_scheme(text) \in {<<"h","t","t","p">>, <<"h","t","t","p","s">>}
    /\ urlparse_netloc(text) # <<>>

(***************************************************************************)
(* float(text): sign, digits with at most one point, nan, inf, infinity.   *)
(* A number is [kind |-> "num", v |-> hundredths]; inputs carry at most two *)
(* fractional digits and no exponent.                                      *)
(***************************************************************************)
RECURSIVE IntOf(_)
IntOf(ds) == IF ds = <<>> THEN 0 ELSE 10 * IntOf(SubSeq(ds, 1, Len(ds) - 1)) + DigitVal(ds[Len(ds)])

AllDigits(s) == \A i \in DOMAIN s : IsDigit(s[i])

Unsigned(s) == IF Len(s) > 0 /\ s[1] \in {"+", "-"} THEN Tail(s) ELSE s
Sign(s) == IF Len(s) > 0 /\ s[1] = "-" THEN -1 ELSE 1

IsDecimal(u) ==
    LET parts == Split(u, ".") IN
    /\ Len(parts) \in {1, 2}
    /\ \A i \in DOMAIN parts : AllDigits(parts[i])
    /\ \E i \in DOMAIN parts : parts[i] # <<>>
    /\ Len(parts) = 2 => Len(parts[2]) <= 2

DecimalValue(u) ==
    LET parts == Split(u, ".")
        frac == IF Len(parts) = 2 THEN parts[2] ELSE <<>>
        pad == IF Len(frac) = 0 THEN <<"0","0">> ELSE IF Len(frac) = 1 THEN <<"0">> ELSE <<>>
    IN  IntOf(parts[1]) * Scale + IntOf(frac \o pad)

float(text) ==
    LET s == Strip(text)
        u == Unsigned(s)
    IN  IF Lower(u) = <<"n","a","n">> THEN [ok |-> TRUE, val |-> [kind |-> "nan", v |-> 0]]
        ELSE IF Lower(u) \in {<<"i","n","f">>, <<"i","n","f","i","n","i","t","y">>}
             THEN [ok |-> TRUE, val |-> [kind |-> "inf", v |-> Sign(s)]]
        ELSE IF IsDecimal(u)
             THEN [ok |-> TRUE, val |-> [kind |-> "num", v |-> Sign(s) * DecimalValue(u)]]
        ELSE [ok |-> FALSE, val |-> NoneNum]

\* price <= 0 and price > 1000000 on floats (every comparison with nan is false)
LeZero(p) == \/ p.kind = "num" /\ p.v <= 0
             \/ p.kind = "inf" /\ p.v < 0
GtMax(p) == \/ p.kind = "num" /\ p.v > MaxPrice * Scale
            \/ p.kind = "inf" /\ p.v > 0

\* bool(price_cny): None and 0.0 are false, nan is true
Truthy(p) == p.kind \in {"nan", "inf"} \/ (p.kind = "num" /\ p.v # 0)

\* UserData.price_rub
price_rub(price_cny) ==
    IF Truthy(price_cny)
    THEN (IF price_cny.kind = "num"
          THEN [kind |-> "num", v |-> price_cny.v * exchange_rate]
          ELSE price_cny)
    ELSE [kind |-> "num", v |-> 0]

(***************************************************************************)
(* BotHandlers._validate_contact: TRUE when the first component is True.   *)
(***************************************************************************)
validate_contact(text) ==
    LET contact == Strip(text) IN
    IF Contains(contact, "@")
    THEN LET parts == Split(contact, "@") IN
         Len(parts) = 2 /\ Contains(parts[2], ".")
    ELSE Len(DigitsOf(contact)) >= MinPhoneDigits

(***************************************************************************)
(* filters.Regex(r"^(да|нет)$"): re.search on the message text; "$" also   *)
(* matches before one trailing newline.                                    *)
(***************************************************************************)
DA == <<"cyr_de", "cyr_a">>
NET == <<"cyr_en", "cyr_ie", "cyr_te">>

RegexDaNet(text) ==
    LET t == IF Len(text) > 0 /\ text[Len(text)] = "\n"
             THEN SubSeq(text, 1, Len(text) - 1) ELSE text
    IN  t \in {DA, NET}

(***************************************************************************)
(* Updates the user may send.  A Telegram client can send any text, any    *)
(* command and (a modified client) any callback data.                      *)
(***************************************************************************)
T_url == <<"h","t","t","p",":","/","/","a">>
T_word == <<"a","b","c">>
T_price == <<"9",",","5">>
T_zero == <<"0">>
T_inf == <<"i","n","f">>
T_nan == <<"n","a","n">>
T_mail == <<"u","@","m",".","c">>
T_atdigits == <<"a","@","1","2","3","4","5">>
T_Da == <<"CYR_DE", "cyr_a">>

Texts == {T_url, T_word, T_price, T_zero, T_inf, T_nan, T_mail, T_atdigits, DA, T_Da, NET}

Commands == {"start", "help", "cancel", "healthz"}

ship_(key) == <<"s","h","i","p","_">> \o key
foo == <<"f","o","o">>
CallbackData == {ship_(truck), ship_(air), ship_(foo)}

CommandUpdates == {[kind |-> "command", payload |-> <<c>>] : c \in Commands}
TextUpdates == {[kind |-> "text", payload |-> t] : t \in Texts}
CallbackUpdates == {[kind |-> "callback", payload |-> d] : d \in CallbackData}
Updates == CommandUpdates \cup TextUpdates \cup CallbackUpdates

(***************************************************************************)
(* State.                                                                  *)
(***************************************************************************)
VARIABLES
    ReplyKeyboardMarkupBound, \* is the name ReplyKeyboardMarkup bound in bot.py's
                 \* globals: FALSE is bot.py as written (its import list
                 \* leaves the name out), TRUE the module with the name
                 \* supplied; fixed for a run
    conv,        \* ConversationHandler's state for the user's key; "END" = no entry
    user_data,   \* context.user_data: the "user" entry (a UserData) or none
    tasks,       \* the user's handler coroutines suspended at an await (a bag)
    last,        \* the step just taken: handler, phase, replies it sent
    sent,        \* calls of send_notification since the last /start
    order,       \* order_data of the latest send_notification call
    disp,        \* send_notification's latest call: attempts, waits, errors, result
    script,      \* progress of the uninterrupted /start..yes|no walk-through
    call         \* the latest call of a method on its own: name, argument, result

vars == <<ReplyKeyboardMarkupBound, conv, user_data, tasks, last, sent, order, disp, script,
          call>>

States == {"LINK", "PRICE", "SHIPPING", "CONTACT", "CONFIRMATION"}
END == "END"

\* context.user_data after clear()
NoUser == [present |-> FALSE, link |-> NoneStr, price_cny |-> NoneNum,
           shipping_method |-> NoneStr, contact |-> NoneStr]

\* UserData(user_id=..., username=...): the four optional fields default to None
\* (user_id and username never change and are left out)
UserData == [present |-> TRUE, link |-> NoneStr, price_cny |-> NoneNum,
             shipping_method |-> NoneStr, contact |-> NoneStr]

\* vars(context.user_data["user"]): the instance's fields; the property
\* price_rub is not among them
vars_of(u) == [link |-> u.link, price_cny |-> u.price_cny,
               shipping_method |-> u.shipping_method, contact |-> u.contact]

NoOrder == [link |-> NoneStr, price_cny |-> NoneNum,
            shipping_method |-> NoneStr, contact |-> NoneStr]

NoCall == [f |-> "none", arg |-> <<>>, ret |-> FALSE]

NoDisp == [retries |-> 0, tries |-> 0, waits |-> <<>>, errs |-> <<>>, result |-> "none"]

Suspended == BagToSet(tasks)
AllIdle == tasks = EmptyBag

Init ==
    /\ ReplyKeyboardMarkupBound \in BOOLEAN
    /\ conv = END
    /\ user_data = NoUser
    /\ tasks = EmptyBag
    /\ last = [h |-> "init", ph |-> "", out |-> <<>>]
    /\ sent = 0
    /\ order = NoOrder
    /\ disp = NoDisp
    /\ script = 0
    /\ call = NoCall

(***************************************************************************)
(* setup_handlers: which handler takes an update.                          *)
(* ConversationHandler.check_update tries, in this order, the entry points *)
(* (when there is no conversation, or allow_reentry), the handlers of the  *)
(* current state, the fallbacks.  The application then tries the next      *)
(* handler of the group, CommandHandler("healthz").                        *)
(***************************************************************************)
allow_reentry_off == FALSE
\* ConversationHandler(..., allow_reentry=True)
allow_reentry == TRUE

IsCommand(upd, name) == upd.kind = "command" /\ upd.payload = <<name>>

\* filters.TEXT & ~filters.COMMAND
IsPlainText(upd) == upd.kind = "text"

\* CallbackQueryHandler(pattern="^ship_"): re.match on the callback data
MatchesShip(upd) ==
    /\ upd.kind = "callback"
    /\ Len(upd.payload) >= 5
    /\ SubSeq(upd.payload, 1, 5) = <<"s","h","i","p","_">>

entry_points(upd) ==
    IF IsCommand(upd, "start") THEN "start"
    ELSE IF IsCommand(upd, "help") THEN "help_command"
    ELSE "none"

state_handlers(state, upd) ==
    IF state = "LINK" /\ IsPlainText(upd) THEN "handle_link"
    ELSE IF state = "PRICE" /\ IsPlainText(upd) THEN "handle_price"
    ELSE IF state = "SHIPPING" /\ MatchesShip(upd) THEN "handle_shipping"
    ELSE IF state = "CONTACT" /\ IsPlainText(upd) THEN "handle_contact"
    ELSE IF state = "CONFIRMATION" /\ upd.kind = "text" /\ RegexDaNet(upd.payload)
         THEN "handle_confirmation"
    ELSE IF state \in States /\ IsCommand(upd, "cancel") THEN "cancel"
    ELSE "none"

fallbacks(upd) ==
    IF IsCommand(upd, "cancel") THEN "cancel"
    ELSE IF IsCommand(upd, "help") THEN "help_command"
    ELSE "none"

conv_handler(state, upd) ==
    IF (state = END \/ allow_reentry) /\ entry_points(upd) # "none" THEN entry_points(upd)
    ELSE IF state = END THEN "none"
    ELSE IF state_handlers(state, upd) # "none" THEN state_handlers(state, upd)
    ELSE fallbacks(upd)

setup_handlers(state, upd) ==
    IF conv_handler(state, upd) # "none" THEN conv_handler(state, upd)
    ELSE IF IsCommand(upd, "healthz") THEN "health_check"
    ELSE "none"

(***************************************************************************)
(* The walk-through /start, link, price, shipping, contact, yes|no: script *)
(* counts its updates while each arrives with no handler still suspended   *)
(* and nothing else arrives in between; 6 = ended with yes, 7 = with no.   *)
(***************************************************************************)
PriceInRange(text) ==
    LET r == float(Replace(Strip(text), ",", ".")) IN
    r.ok /\ r.val.kind = "num" /\ r.val.v > 0 /\ r.val.v <= MaxPrice * Scale

Expected(k, upd) ==
    \/ k = 1 /\ upd.kind = "text" /\ LinkValid(Strip(upd.payload))
    \/ k = 2 /\ upd.kind = "text" /\ PriceInRange(upd.payload)
    \/ k = 3 /\ MatchesShip(upd) /\ Split(upd.payload, "_")[2] \in shipping_options
    \/ k = 4 /\ upd.kind = "text" /\ validate_contact(upd.payload)
    \/ k = 5 /\ upd.kind = "text" /\ upd.payload \in {DA, NET}

ScriptStep(upd) ==
    IF IsCommand(upd, "start") THEN (IF AllIdle THEN 1 ELSE 0)
    ELSE IF AllIdle /\ script \in 1..5 /\ Expected(script, upd)
         THEN (IF script = 5 /\ upd.payload = NET THEN 7 ELSE script + 1)
    ELSE 0

(***************************************************************************)
(* Steps of the handlers.  A handler runs from the update's arrival to its *)
(* first network await (reply_text, query.answer, edit_message_text,       *)
(* asyncio.sleep) in one step, and from one await to the next in one step: *)
(* main builds the application with concurrent_updates(True), so other     *)
(* updates of the same user are taken up while a handler is suspended.     *)
(***************************************************************************)
concurrent_updates == TRUE

\* an update is taken up: always when nothing is suspended, and while other
\* handlers are suspended only with concurrent_updates
CanTake == BagCardinality(tasks) < MaxTasks /\ (concurrent_updates \/ AllIdle)

Task(h, pc, ret, data) ==
    [h |-> h, pc |-> pc, ret |-> ret, data |-> data, att |-> 0, retries |-> 0]

Sleeping(h, ret, att, retries) ==
    [h |-> h, pc |-> "sleep", ret |-> ret, data |-> NoneStr, att |-> att, retries |-> retries]

Suspend(h, pc, ret, data) == tasks (+) SetToBag({Task(h, pc, ret, data)})

\* the coroutine t ends / goes on as u to its next await
Finish(t) == tasks (-) SetToBag({t})
Continue(t, u) == (tasks (-) SetToBag({t})) (+) SetToBag({u})

Step(h, ph, out) == [h |-> h, ph |-> ph, out |-> out]

update_state_none_ends(state, new_state) ==
    IF new_state = "None" THEN END ELSE new_state
\* ConversationHandler._update_state: END removes the entry, None keeps the
\* state, anything else is stored
update_state(state, new_state) ==
    IF new_state = "None" THEN state ELSE new_state

keep_user_data(ud) == ud
\* context.user_data.clear()
clear(ud) == NoUser

\* A handler raised: the conversation state is not updated, and handle_errors
\* replies when the update carries a message.
Raise(h, exc, upd) ==
    /\ last' = Step(h, exc,
                    IF upd.kind \in {"text", "command"} THEN <<"error">> ELSE <<>>)
    /\ UNCHANGED <<conv, tasks>>

\* _create_cancel_keyboard and _create_confirmation_keyboard build a
\* ReplyKeyboardMarkup, a name bot.py does not import: the call raises
\* NameError unless the name is bound in the module's globals
create_cancel_keyboard ==
    IF ReplyKeyboardMarkupBound THEN "ReplyKeyboardMarkup" ELSE "NameError"

create_confirmation_keyboard ==
    IF ReplyKeyboardMarkupBound THEN "ReplyKeyboardMarkup" ELSE "NameError"

(***************************************************************************)
(* OrderService.send_notification                                          *)
(***************************************************************************)
Outcomes == {"ok", "SMTPAuthenticationError", "SMTPConnectError", "timeout"}

\* The message is composed before the first attempt; the f-strings read, in
\* this order, price_cny (:.2f), price_rub (:.2f), shipping_method, and
\* raise on a None number, a missing key, an unknown shipping key.
compose(order_data) ==
    IF order_data.price_cny = NoneNum THEN "TypeError"
    ELSE IF "price_rub" \notin DOMAIN order_data THEN "KeyError"
    ELSE IF order_data.price_rub = NoneNum THEN "TypeError"
    ELSE IF order_data.shipping_method \notin shipping_options THEN "KeyError"
    ELSE "ok"

Backoff_linear(attempt) == 2 * attempt
\* await asyncio.sleep(2 ** attempt)
RECURSIVE Backoff(_)
Backoff(attempt) == IF attempt = 0 THEN 1 ELSE 2 * Backoff(attempt - 1)

IsLastAttempt_off_by_one(attempt, retries) == attempt = retries
\* if attempt == retries - 1: raise
IsLastAttempt(attempt, retries) == attempt = retries - 1

attempt_result_auth_fatal(attempt, retries, outcome) ==
    IF outcome = "ok" THEN "True"
    ELSE IF outcome = "SMTPAuthenticationError" \/ IsLastAttempt(attempt, retries)
         THEN "raise"
    ELSE "sleep"

\* One pass of the for loop's body, the SMTP exchange ending in `outcome`:
\* "True" (return True), "raise" (the exception propagates) or "sleep".
attempt_result(attempt, retries, outcome) ==
    IF outcome = "ok" THEN "True"
    ELSE IF IsLastAttempt(attempt, retries) THEN "raise"
    ELSE "sleep"

\* what the call has done so far, after that pass
attempt_record(d, attempt, retries, outcome) ==
    LET r == attempt_result(attempt, retries, outcome) IN
    [retries |-> d.retries,
     tries  |-> d.tries + 1,
     waits  |-> IF r = "sleep" THEN Append(d.waits, Backoff(attempt)) ELSE d.waits,
     errs   |-> IF outcome = "ok" THEN d.errs ELSE Append(d.errs, outcome),
     result |-> IF r = "True" THEN "True" ELSE IF r = "raise" THEN outcome ELSE "none"]

(***************************************************************************)
(* BotHandlers                                                             *)
(***************************************************************************)
\* start -> _init_conversation, up to the await of reply_text
start(upd) ==
    /\ CanTake
    /\ setup_handlers(conv, upd) = "start"
    /\ user_data' = UserData
    /\ tasks' = Suspend("start", "reply", "LINK", NoneStr)
    /\ last' = Step("start", "begin", <<"welcome">>)
    /\ sent' = 0
    /\ order' = NoOrder
    /\ script' = ScriptStep(upd)
    /\ UNCHANGED <<ReplyKeyboardMarkupBound, call, conv, disp>>

\* help_command: one reply, returns None
help_command(upd) ==
    /\ CanTake
    /\ setup_handlers(conv, upd) = "help_command"
    /\ last' = Step("help_command", "done", <<"help">>)
    /\ conv' = update_state(conv, "None")
    /\ script' = ScriptStep(upd)
    /\ UNCHANGED <<ReplyKeyboardMarkupBound, call, user_data, tasks, sent, order, disp>>

\* health_check: registered on the application, outside the conversation
\* handler, so the END it returns reaches no conversation
health_check(upd) ==
    /\ CanTake
    /\ setup_handlers(conv, upd) = "health_check"
    /\ last' = Step("health_check", "done", <<"healthy">>)
    /\ script' = ScriptStep(upd)
    /\ UNCHANGED <<ReplyKeyboardMarkupBound, call, conv, user_data, tasks, sent, order, disp>>

\* cancel, up to the await of reply_text
cancel(upd) ==
    /\ CanTake
    /\ setup_handlers(conv, upd) = "cancel"
    /\ tasks' = Suspend("cancel", "reply", END, NoneStr)
    /\ last' = Step("cancel", "begin", <<"cancelled">>)
    /\ script' = ScriptStep(upd)
    /\ UNCHANGED <<ReplyKeyboardMarkupBound, call, conv, user_data, sent, order, disp>>

\* cancel, after the await: context.user_data.clear(); return END
cancel_resume(t) ==
    /\ t.h = "cancel"
    /\ t.pc = "reply"
    /\ user_data' = clear(user_data)
    /\ conv' = update_state(conv, t.ret)
    /\ tasks' = Finish(t)
    /\ last' = Step("cancel", "end", <<>>)
    /\ UNCHANGED <<ReplyKeyboardMarkupBound, call, sent, order, disp, script>>

\* handle_link
handle_link(upd) ==
    LET text == Strip(upd.payload) IN
    /\ CanTake
    /\ setup_handlers(conv, upd) = "handle_link"
    /\ script' = ScriptStep(upd)
    /\ UNCHANGED <<ReplyKeyboardMarkupBound, call, sent, order, disp>>
    /\ IF ~LinkValid(text)
       THEN /\ tasks' = Suspend("handle_link", "reply", "LINK", NoneStr)
            /\ last' = Step("handle_link", "invalid", <<"bad_link">>)
            /\ UNCHANGED <<conv, user_data>>
       ELSE IF ~user_data.present
       THEN Raise("handle_link", "KeyError", upd) /\ UNCHANGED user_data
       ELSE /\ user_data' = [user_data EXCEPT !.link = text]
            /\ IF create_cancel_keyboard # "NameError"
               THEN /\ tasks' = Suspend("handle_link", "reply", "PRICE", NoneStr)
                    /\ last' = Step("handle_link", "valid", <<"link_ok">>)
                    /\ UNCHANGED conv
               ELSE Raise("handle_link", "NameError", upd)

\* handle_price, with _show_shipping_options
handle_price(upd) ==
    LET text == Strip(upd.payload)
        r == float(Replace(text, ",", "."))
    IN
    /\ CanTake
    /\ setup_handlers(conv, upd) = "handle_price"
    /\ script' = ScriptStep(upd)
    /\ UNCHANGED <<ReplyKeyboardMarkupBound, call, sent, order, disp>>
    /\ IF ~r.ok \/ LeZero(r.val)
       THEN /\ tasks' = Suspend("handle_price", "reply", "PRICE", NoneStr)
            /\ last' = Step("handle_price", "invalid", <<"bad_price">>)
            /\ UNCHANGED <<conv, user_data>>
       ELSE IF GtMax(r.val)
       THEN /\ tasks' = Suspend("handle_price", "reply", "PRICE", NoneStr)
            /\ last' = Step("handle_price", "invalid", <<"price_high">>)
            /\ UNCHANGED <<conv, user_data>>
       ELSE IF ~user_data.present
       THEN Raise("handle_price", "KeyError", upd) /\ UNCHANGED user_data
       ELSE /\ user_data' = [user_data EXCEPT !.price_cny = r.val]
            /\ tasks' = Suspend("handle_price", "reply", "SHIPPING", NoneStr)
            /\ last' = Step("handle_price", "valid", <<"shipping_menu">>)
            /\ UNCHANGED conv

\* handle_shipping, up to the await of query.answer()
handle_shipping(upd) ==
    /\ CanTake
    /\ setup_handlers(conv, upd) = "handle_shipping"
    /\ tasks' = Suspend("handle_shipping", "answer", "CONTACT", upd.payload)
    /\ last' = Step("handle_shipping", "begin", <<>>)
    /\ script' = ScriptStep(upd)
    /\ UNCHANGED <<ReplyKeyboardMarkupBound, call, conv, user_data, sent, order, disp>>

\* handle_shipping, from query.answer() to the await of edit_message_text:
\* the method is stored before config.shipping_options[method] is read
handle_shipping_resume(t) ==
    LET method == Split(t.data, "_")[2] IN
    /\ t.h = "handle_shipping"
    /\ t.pc = "answer"
    /\ UNCHANGED <<ReplyKeyboardMarkupBound, call, conv, sent, order, disp, script>>
    /\ IF ~user_data.present
       THEN /\ tasks' = Finish(t)
            /\ last' = Step("handle_shipping", "KeyError", <<>>)
            /\ UNCHANGED user_data
       ELSE /\ user_data' = [user_data EXCEPT !.shipping_method = method]
            /\ IF method \in shipping_options
               THEN /\ tasks' = Continue(t, [t EXCEPT !.pc = "reply"])
                    /\ last' = Step("handle_shipping", "valid", <<"shipping_ok">>)
               ELSE /\ tasks' = Finish(t)
                    /\ last' = Step("handle_shipping", "KeyError", <<>>)

\* handle_contact, with _confirm_order
handle_contact(upd) ==
    LET contact == Strip(upd.payload) IN
    /\ CanTake
    /\ setup_handlers(conv, upd) = "handle_contact"
    /\ script' = ScriptStep(upd)
    /\ UNCHANGED <<ReplyKeyboardMarkupBound, call, sent, order, disp>>
    /\ IF ~validate_contact(contact)
       THEN /\ UNCHANGED user_data
            /\ IF create_cancel_keyboard # "NameError"
               THEN /\ tasks' = Suspend("handle_contact", "reply", "CONTACT", NoneStr)
                    /\ last' = Step("handle_contact", "invalid", <<"bad_contact">>)
                    /\ UNCHANGED conv
               ELSE Raise("handle_contact", "NameError", upd)
       ELSE IF ~user_data.present
       THEN Raise("handle_contact", "KeyError", upd) /\ UNCHANGED user_data
       ELSE /\ user_data' = [user_data EXCEPT !.contact = contact]
            /\ IF user_data.shipping_method \notin shipping_options
               THEN Raise("handle_contact", "KeyError", upd)
               ELSE IF user_data.price_cny = NoneNum
               THEN Raise("handle_contact", "TypeError", upd)
               ELSE IF create_confirmation_keyboard = "NameError"
               THEN Raise("handle_contact", "NameError", upd)
               ELSE /\ tasks' = Suspend("handle_contact", "reply", "CONFIRMATION", NoneStr)
                    /\ last' = Step("handle_contact", "valid", <<"summary">>)
                    /\ UNCHANGED conv

\* return States.X of start, handle_link, handle_price, handle_shipping and
\* handle_contact, after their last await
return_state(t) ==
    /\ t.h \in {"start", "handle_link", "handle_price", "handle_shipping",
                       "handle_contact"}
    /\ t.pc = "reply"
    /\ conv' = update_state(conv, t.ret)
    /\ tasks' = Finish(t)
    /\ last' = Step(t.h, "end", <<>>)
    /\ UNCHANGED <<ReplyKeyboardMarkupBound, call, user_data, sent, order, disp, script>>

\* send_notification from its call to its first await or its end: the message
\* is composed, and the first pass of the loop runs (smtplib blocks, so
\* nothing else runs in between).  status: "True", "False", "raise", "sleep".
send_begin(order_data, retries, outcome) ==
    LET d0 == [NoDisp EXCEPT !.retries = retries] IN
    IF compose(order_data) # "ok"
    THEN [status |-> "raise", d |-> [d0 EXCEPT !.result = compose(order_data)]]
    ELSE IF retries = 0
    THEN [status |-> "False", d |-> [d0 EXCEPT !.result = "False"]]
    ELSE [status |-> attempt_result(0, retries, outcome),
          d |-> attempt_record(d0, 0, retries, outcome)]

confirmation_reply_known_errors(result) ==
    IF result = "True" THEN <<"order_ok">>
    ELSE IF result = "SMTPAuthenticationError" THEN <<"auth_err">>
    ELSE IF result = "SMTPConnectError" THEN <<"conn_err">>
    ELSE <<>>
\* handle_confirmation's reply for what send_notification returned or raised
\* (success False sends nothing)
confirmation_reply(result) ==
    IF result = "True" THEN <<"order_ok">>
    ELSE IF result = "False" THEN <<>>
    ELSE IF result = "SMTPAuthenticationError" THEN <<"auth_err">>
    ELSE IF result = "SMTPConnectError" THEN <<"conn_err">>
    ELSE <<"internal_err">>

is_yes_always(text) == TRUE
\* if text == "да", on the lower-cased message text
is_yes(text) == text = DA

\* handle_confirmation, up to its first await
handle_confirmation(upd) ==
    LET text == Lower(upd.payload) IN
    /\ CanTake
    /\ setup_handlers(conv, upd) = "handle_confirmation"
    /\ script' = ScriptStep(upd)
    /\ UNCHANGED <<ReplyKeyboardMarkupBound, call>>
    /\ IF ~is_yes(text)
       THEN /\ tasks' = Suspend("handle_confirmation", "reply", END, NoneStr)
            /\ last' = Step("handle_confirmation", "no", <<"order_cancelled">>)
            /\ UNCHANGED <<conv, user_data, sent, order, disp>>
       ELSE IF ~user_data.present
       THEN /\ tasks' = Suspend("handle_confirmation", "reply", END, NoneStr)
            /\ last' = Step("handle_confirmation", "KeyError", <<"internal_err">>)
            /\ UNCHANGED <<conv, user_data, sent, order, disp>>
       ELSE \E outcome \in Outcomes :
            LET b == send_begin(vars_of(user_data), DefaultRetries, outcome) IN
            /\ sent' = sent + 1
            /\ order' = vars_of(user_data)
            /\ disp' = b.d
            /\ last' = Step("handle_confirmation", "yes",
                            IF b.status = "sleep" THEN <<>> ELSE confirmation_reply(b.d.result))
            /\ IF b.status = "sleep"
               THEN /\ tasks' = tasks (+) SetToBag({Sleeping("handle_confirmation", END, 1,
                                                                DefaultRetries)})
                    /\ UNCHANGED <<conv, user_data>>
               ELSE IF b.status = "False"
               THEN /\ user_data' = clear(user_data)
                    /\ conv' = update_state(conv, END)
                    /\ UNCHANGED tasks
               ELSE /\ tasks' = Suspend("handle_confirmation", "reply", END, NoneStr)
                    /\ UNCHANGED <<conv, user_data>>

\* handle_confirmation, after the await of its reply:
\* context.user_data.clear(); return END
handle_confirmation_resume(t) ==
    /\ t.h = "handle_confirmation"
    /\ t.pc = "reply"
    /\ user_data' = clear(user_data)
    /\ conv' = update_state(conv, t.ret)
    /\ tasks' = Finish(t)
    /\ last' = Step("handle_confirmation", "end", <<>>)
    /\ UNCHANGED <<ReplyKeyboardMarkupBound, call, sent, order, disp, script>>

\* send_notification after asyncio.sleep: the next pass of the loop, or
\* return False when range(retries) is used up
send_wake(t) ==
    /\ t.pc = "sleep"
    /\ \E outcome \in Outcomes :
       LET more == t.att < t.retries
           r == IF more THEN attempt_result(t.att, t.retries, outcome) ELSE "False"
           d == IF more THEN attempt_record(disp, t.att, t.retries, outcome)
                ELSE [disp EXCEPT !.result = "False"]
       IN
       /\ disp' = d
       /\ IF r = "sleep"
          THEN /\ tasks' = Continue(t, [t EXCEPT !.att = @ + 1])
               /\ last' = Step(t.h, "sleep", <<>>)
          ELSE IF t.h = "handle_confirmation"
          THEN /\ tasks' = Continue(t, [t EXCEPT !.pc = "reply"])
               /\ last' = Step(t.h, "sent", confirmation_reply(d.result))
          ELSE /\ tasks' = Finish(t)
               /\ last' = Step(t.h, r, <<>>)
    /\ UNCHANGED <<ReplyKeyboardMarkupBound, call, conv, user_data, sent, order, script>>

\* an update no handler takes is dropped
unhandled(upd) ==
    /\ CanTake
    /\ setup_handlers(conv, upd) = "none"
    /\ last' = Step("none", "drop", <<>>)
    /\ script' = ScriptStep(upd)
    /\ UNCHANGED <<ReplyKeyboardMarkupBound, call, conv, user_data, tasks, sent, order, disp>>

(***************************************************************************)
(* The bot.  The CommandHandlers take commands, the MessageHandlers text    *)
(* messages, the CallbackQueryHandler callback queries; setup_handlers in  *)
(* each action's guard decides which one.                                  *)
(* handle_confirmation passes vars(UserData), which has no price_rub, so   *)
(* send_notification raises while composing and no coroutine of the bot    *)
(* ever sleeps in it: send_wake is no step of the bot.                     *)
(***************************************************************************)
Next ==
    \/ \E upd \in CommandUpdates : start(upd)
    \/ \E upd \in CommandUpdates : help_command(upd)
    \/ \E upd \in CommandUpdates : health_check(upd)
    \/ \E upd \in CommandUpdates : cancel(upd)
    \/ \E upd \in TextUpdates : handle_link(upd)
    \/ \E upd \in TextUpdates : handle_price(upd)
    \/ \E upd \in CallbackUpdates : handle_shipping(upd)
    \/ \E upd \in TextUpdates : handle_contact(upd)
    \/ \E upd \in TextUpdates : handle_confirmation(upd)
    \/ \E upd \in Updates : unhandled(upd)
    \/ \E t \in Suspended : cancel_resume(t)
    \/ \E t \in Suspended : handle_shipping_resume(t)
    \/ \E t \in Suspended : handle_confirmation_resume(t)
    \/ \E t \in Suspended : return_state(t)

Spec == Init /\ [][Next]_vars

(***************************************************************************)
(* OrderService.send_notification called on its own, with any order_data   *)
(* and any retries up to the default.                                      *)
(***************************************************************************)
CompleteOrder(ship, price) ==
    [link |-> T_url, price_cny |-> price, price_rub |-> price_rub(price),
     shipping_method |-> ship, contact |-> T_mail]

SomePrice == [kind |-> "num", v |-> 950]

Orders ==
    {CompleteOrder(k, SomePrice) : k \in shipping_options \cup {foo}}
    \cup {CompleteOrder(air, NoneNum)}
    \cup {vars_of([UserData EXCEPT !.link = T_url, !.price_cny = SomePrice,
                                   !.shipping_method = air, !.contact = T_mail])}

send_notification(order_data, retries) ==
    /\ AllIdle
    /\ \E outcome \in Outcomes :
       LET b == send_begin(order_data, retries, outcome) IN
       /\ disp' = b.d
       /\ last' = Step("send_notification", b.status, <<>>)
       /\ tasks' = IF b.status = "sleep"
                   THEN tasks (+) SetToBag({Sleeping("send_notification", "", 1, retries)})
                   ELSE tasks
    /\ sent' = 1
    /\ order' = order_data
    /\ UNCHANGED <<ReplyKeyboardMarkupBound, call, conv, user_data, script>>

NextDispatch ==
    \/ \E order_data \in Orders, retries \in 0..DefaultRetries :
          send_notification(order_data, retries)
    \/ \E t \in Suspended : send_wake(t)

SpecDispatch == Init /\ [][NextDispatch]_vars

(***************************************************************************)
(* BotHandlers._validate_contact called on its own, with every string of   *)
(* up to MaxContactLen characters: a letter, a digit, "@" and ".".         *)
(***************************************************************************)
ContactChars == {"a", "1", "@", "."}

ContactInputs == UNION {[1..n -> ContactChars] : n \in 0..MaxContactLen}

\* one call per behaviour: the method keeps no state between calls
validate_contact_call(contact) ==
    /\ call = NoCall
    /\ call' = [f |-> "_validate_contact", arg |-> contact,
                ret |-> validate_contact(contact)]
    /\ last' = Step("_validate_contact", "done", <<>>)
    /\ UNCHANGED <<ReplyKeyboardMarkupBound, conv, user_data, tasks, sent, order, disp,
                   script>>

NextValidate == \E contact \in ContactInputs : validate_contact_call(contact)

SpecValidate == Init /\ [][NextValidate]_vars

(***************************************************************************)
(* Properties.                                                             *)
(***************************************************************************)
CancelCmd == [kind |-> "command", payload |-> <<"cancel">>]

\* C1: in each of the five states /cancel is handled by cancel, which sends
\* exactly one reply (the cancellation), calls no send_notification, and
\* leaves no session: user_data cleared whatever it held, conversation ended.
C1_CancelClearsSession ==
    [][/\ (conv \in States /\ CanTake) => ENABLED cancel(CancelCmd)
       /\ (last'.h = "cancel" /\ last'.ph = "begin") =>
             /\ last'.out = <<"cancelled">>
             /\ sent' = sent /\ disp' = disp
       /\ (last'.h = "cancel" /\ last'.ph = "end") =>
             /\ conv' = END /\ user_data' = NoUser
             /\ last'.out = <<>>
             /\ sent' = sent /\ disp' = disp]_vars

\* a cancellation has been handled to its end by the module as written, and
\* nothing of the session is left
C1_Witness ==
    /\ ~ReplyKeyboardMarkupBound
    /\ last = Step("cancel", "end", <<>>)
    /\ conv = END /\ user_data = NoUser /\ AllIdle

InvalidKey(t) == Split(t.data, "_")[2] \notin shipping_options

Walked == [link |-> T_url, price_cny |-> float(Replace(T_price, ",", ".")).val,
           contact |-> T_mail]

\* C3: after the walk-through /start, valid link, valid price, known shipping
\* key, valid contact, yes, each handled to its end, send_notification has
\* been called exactly once, with the values entered, and no session is left.
C3_YesDispatchesOnce ==
    (script = 6 /\ AllIdle) =>
        /\ sent = 1
        /\ order.link = Walked.link
        /\ order.price_cny = Walked.price_cny
        /\ order.shipping_method \in shipping_options
        /\ order.contact = Walked.contact
        /\ conv = END /\ user_data = NoUser

FirstWaits(k) == SubSeq(<<1, 2>>, 1, k)

\* C5: with retries = 3, a call that returns True after k - 1 failures has
\* made exactly k attempts, slept 1 then 2 between them (the first k - 1 of
\* these), and nothing of it is left to run.
C5_SuccessStopsRetrying ==
    (disp.retries = DefaultRetries /\ disp.result = "True") =>
        /\ disp.tries \in 1..DefaultRetries
        /\ disp.tries = Len(disp.errs) + 1
        /\ disp.waits = FirstWaits(disp.tries - 1)
        /\ AllIdle

\* two failures, then success on the third attempt
C5_Witness ==
    /\ disp.retries = DefaultRetries /\ disp.result = "True"
    /\ disp.tries = 3 /\ disp.waits = <<1, 2>> /\ AllIdle

\* C6: with retries = 3 the call never returns False and never makes a fourth
\* attempt; when three attempts have failed, it has slept 1 and 2 only, has
\* raised the third attempt's error, and nothing of it is left to run.
C6_ExhaustedRaises ==
    disp.retries = DefaultRetries =>
        /\ disp.result # "False"
        /\ disp.tries <= DefaultRetries
        /\ Len(disp.errs) = DefaultRetries =>
              /\ disp.tries = DefaultRetries
              /\ disp.waits = <<1, 2>>
              /\ disp.result = disp.errs[DefaultRetries]
              /\ AllIdle

C6_Witness ==
    /\ disp.retries = DefaultRetries /\ Len(disp.errs) = DefaultRetries
    /\ disp.result = "timeout" /\ disp.waits = <<1, 2>> /\ AllIdle

C10_OneAtATime ==
    /\ BagCardinality(tasks) <= 1
    /\ \A t \in Suspended : t.h = "handle_confirmation" => tasks = SetToBag({t})

NonCommandUpdates == TextUpdates \cup CallbackUpdates

\* the update is not what the step `state` asks for: a link, a price in
\* range, a callback naming a catalog key, a contact, the yes or no token
FailsValidation(state, upd) ==
    \/ state = "LINK" /\ ~(upd.kind = "text" /\ LinkValid(Strip(upd.payload)))
    \/ state = "PRICE" /\ ~(upd.kind = "text" /\ PriceInRange(upd.payload))
    \/ state = "SHIPPING" /\ ~(/\ MatchesShip(upd)
                               /\ Split(upd.payload, "_")[2] \in shipping_options)
    \/ state = "CONTACT" /\ ~(upd.kind = "text" /\ validate_contact(upd.payload))
    \/ state = "CONFIRMATION" /\ ~(upd.kind = "text" /\ Lower(upd.payload) \in {DA, NET})

\* C11: in each of the five states a non-command update that fails the
\* state's validation is answered with a reply and leaves the conversation
\* in that state; at SHIPPING the reply to an unknown key comes when
\* handle_shipping goes on after query.answer().
C11_InvalidReprompts ==
    [][/\ \A upd \in NonCommandUpdates :
             /\ conv \in States /\ FailsValidation(conv, upd)
             /\ \/ unhandled(upd) \/ handle_link(upd) \/ handle_price(upd)
                \/ handle_contact(upd) \/ handle_confirmation(upd)
             => /\ Len(last'.out) >= 1
                /\ conv' = conv
                /\ \A t \in BagToSet(tasks') : t \notin Suspended => t.ret = conv
       /\ \A t \in Suspended : handle_shipping_resume(t) /\ InvalidKey(t) =>
             /\ Len(last'.out) >= 1
             /\ conv' = conv]_vars

C13_HealthCheckEndsConversation ==
    [][(last'.h = "health_check" /\ conv \in States) =>
          /\ last'.out = <<"healthy">>
          /\ conv' = END]_vars

HelpCmd == [kind |-> "command", payload |-> <<"help">>]

\* C14: /help is taken by help_command in every state and when there is no
\* conversation; it sends the help text and changes neither the
\* conversation's state nor user_data, and starts or ends nothing.
C14_HelpChangesNothing ==
    [][/\ CanTake => ENABLED help_command(HelpCmd)
       /\ last'.h = "help_command" =>
             /\ last'.out = <<"help">>
             /\ conv' = conv /\ user_data' = user_data
             /\ tasks' = tasks
             /\ sent' = sent /\ order' = order /\ disp' = disp]_vars

\* /help was answered in the middle of a conversation that holds a link
C14_Witness ==
    /\ last = Step("help_command", "done", <<"help">>)
    /\ conv \in States
    /\ user_data.present /\ user_data.link = T_url

\* the rule of the specification: an "@" with a "." somewhere after it, or
\* at least five digits
ContactRule(s) ==
    \/ \E i, j \in DOMAIN s : i < j /\ s[i] = "@" /\ s[j] = "."
    \/ Cardinality({i \in DOMAIN s : IsDigit(s[i])}) >= 5

\* C15: _validate_contact accepts a contact exactly when it holds an "@"
\* with a "." after it or holds at least five digits.
C15_ContactAcceptedIffRule ==
    call.f = "_validate_contact" => (call.ret <=> ContactRule(call.arg))

StateOrder == <<"LINK", "PRICE", "SHIPPING", "CONTACT", "CONFIRMATION">>
StateIndex(state) == CHOOSE i \in DOMAIN StateOrder : StateOrder[i] = state

\* C18: between the /start that creates a session and the session's end,
\* the conversation's state changes only to the next step; and a valid link
\* handled in LINK, a valid contact handled in CONTACT, is stored and makes
\* the handler return the next step.
C18_LinearTraversal ==
    [][/\ (conv \in States /\ conv' \in States /\ conv' # conv /\ last'.h # "start") =>
             StateIndex(conv') = StateIndex(conv) + 1
       /\ \A upd \in TextUpdates :
             /\ (handle_link(upd) /\ user_data.present /\ LinkValid(Strip(upd.payload))) =>
                   /\ user_data'.link = Strip(upd.payload)
                   /\ \E t \in BagToSet(tasks') : t.h = "handle_link" /\ t.ret = "PRICE"
             /\ (handle_contact(upd) /\ user_data.present
                    /\ validate_contact(upd.payload)) =>
                   /\ user_data'.contact = Strip(upd.payload)
                   /\ \E t \in BagToSet(tasks') :
                         t.h = "handle_contact" /\ t.ret = "CONFIRMATION"]_vars

StartCmd == [kind |-> "command", payload |-> <<"start">>]

\* C19: /start is taken by start in each of the five states; start replaces
\* whatever the session held by a fresh UserData with no link, price,
\* shipping method or contact, calls no send_notification, and returns
\* LINK.
C19_StartRestartsAnywhere ==
    [][/\ (conv \in States /\ CanTake) => ENABLED start(StartCmd)
       /\ (last'.h = "start" /\ last'.ph = "begin") =>
             /\ user_data' = UserData
             /\ last'.out = <<"welcome">>
             /\ disp' = disp /\ sent' = 0
       /\ (last'.h = "start" /\ last'.ph = "end") =>
             /\ conv' = "LINK"
             /\ user_data' = user_data
             /\ disp' = disp /\ sent' = sent]_vars

\* /start has been taken in the middle of a conversation: the session is
\* fresh, and start has yet to return LINK
C19_Witness ==
    /\ last = Step("start", "begin", <<"welcome">>)
    /\ conv \in States
    /\ user_data = UserData

\* C20: with retries = 3, whatever the kinds of the failures, every failed
\* attempt but the third has been followed by a sleep, and the call then
\* goes on to another attempt; when all three have failed, the error
\* raised to the caller is the third attempt's, and handle_confirmation's
\* reply is the one for that error; no delivery error is raised earlier.
C20_FailuresAlike ==
    disp.retries = DefaultRetries =>
        /\ Len(disp.waits) = IF Len(disp.errs) = DefaultRetries
                             THEN DefaultRetries - 1 ELSE Len(disp.errs)
        /\ \A i \in DOMAIN disp.errs :
              i < DefaultRetries =>
                 \/ disp.tries > i
                 \/ \E t \in Suspended : t.pc = "sleep" /\ t.att = i
        /\ Len(disp.errs) = DefaultRetries =>
              /\ disp.result = disp.errs[DefaultRetries]
              /\ confirmation_reply(disp.result) =
                    confirmation_reply(disp.errs[DefaultRetries])
        /\ Len(disp.errs) < DefaultRetries => disp.result \notin Outcomes

\* authentication failed on attempts 1 and 2, each followed by its sleep,
\* the connection failed on attempt 3, and that last error was raised
C20_Witness ==
    /\ disp.retries = DefaultRetries
    /\ disp.errs = <<"SMTPAuthenticationError", "SMTPAuthenticationError",
                     "SMTPConnectError">>
    /\ disp.waits = <<1, 2>>
    /\ disp.result = "SMTPConnectError"
    /\ AllIdle

====
